---- MODULE Spec2Model ----
(***************************************************************************)
(* Model of the AI video ad generator: the two Streamlit scripts           *)
(* src/main.py (variant "main": one image, whole script as caption) and    *)
(* src/extra-plus.py (variant "plus": several images, one caption line     *)
(* per image).  One run of the script after the button is pressed is a     *)
(* forward pass scrape -> script -> download -> video.                     *)
(*                                                                         *)
(* Text is a sequence of tokens; "SP" and "NL" are a blank and a line      *)
(* break.  A URL is the sequence of its dot-separated segments, so         *)
(* <<"cdn/A", "_SX300_", "jpg">> is cdn/A._SX300_.jpg; <<>> is the empty   *)
(* string and NoneUrl is Python's None.                                    *)
(***************************************************************************)
EXTENDS Integers, Sequences, FiniteSets, TLC

\* ---------------------------------------------------------------- bounds
MaxElems == 2      \* img elements carrying data-a-dynamic-image (SpecExtract)
MaxRunElems == 1   \* the same, for the pages of a whole run (Spec)
MaxImgs == 3       \* image paths handed to create_video (SpecVideo)
MaxLines == 3      \* script lines handed to create_video (SpecVideo)
MaxUrls == 3       \* URLs handed to download_images (SpecDownload)

\* ------------------------------------------------------ program constants
MaxImages == 4     \* len(img_urls) < 4
FallbackCount == 3 \* generate_ai_images(..., count=3)

Min(a, b) == IF a < b THEN a ELSE b

\* ------------------------------------------------------------------ text
Whitespace == {"SP", "NL"}

RECURSIVE LStrip(_)
LStrip(s) ==
    IF s = <<>> THEN s
    ELSE IF Head(s) \in Whitespace THEN LStrip(Tail(s)) ELSE s

RECURSIVE RStrip(_)
RStrip(s) ==
    IF s = <<>> THEN s
    ELSE IF s[Len(s)] \in Whitespace THEN RStrip(SubSeq(s, 1, Len(s) - 1)) ELSE s

\* str.strip()
Strip(s) == RStrip(LStrip(s))

RECURSIVE SplitAcc(_, _, _)
SplitAcc(s, cur, acc) ==
    IF s = <<>> THEN Append(acc, cur)
    ELSE IF Head(s) = "NL" THEN SplitAcc(Tail(s), <<>>, Append(acc, cur))
    ELSE SplitAcc(Tail(s), Append(cur, Head(s)), acc)

\* str.split("\n"): always at least one line, empty lines are kept
SplitLines(s) == SplitAcc(s, <<>>, <<>>)

RECURSIVE JoinSp(_)
\* " ".join(lines)
JoinSp(lines) ==
    IF lines = <<>> THEN <<>>
    ELSE IF Len(lines) = 1 THEN lines[1]
    ELSE lines[1] \o <<"SP">> \o JoinSp(Tail(lines))

\* ------------------------------------------------------------------ URLs
NoneUrl == <<"None">>
VariantSegs == {"_SX300_", "_SX600_", "_AC_"}   \* segments matching _[^.]+

RECURSIVE NormScan(_, _, _)
\* re.sub(r"\._[^.]+\.", ".", k), left to right over non-overlapping matches:
\* a match is ".seg." with seg starting with "_" and at least one more
\* character; its closing dot is consumed, so the segment right after a
\* removed one cannot match.
NormScan(url, i, dotFree) ==
    IF i > Len(url) THEN <<>>
    ELSE IF dotFree /\ i > 1 /\ i < Len(url) /\ url[i] \in VariantSegs
         THEN NormScan(url, i + 1, FALSE)
         ELSE <<url[i]>> \o NormScan(url, i + 1, TRUE)

Normalize(url) == NormScan(url, 1, TRUE)

UA == <<"cdn/A", "jpg">>
UA3 == <<"cdn/A", "_SX300_", "jpg">>
UA6 == <<"cdn/A", "_SX600_", "jpg">>
UB == <<"cdn/B", "jpg">>
UB3 == <<"cdn/B", "_SX300_", "jpg">>
UBB == <<"cdn/B", "_AC_", "_SX300_", "jpg">>
UC == <<"cdn/C", "png">>
UD == <<"cdn/D", "jpeg?v=2">>
UE == <<"cdn/E", "_", "jpg">>
UF == <<"cdn/F">>
UEmpty == <<>>
AiUrls == <<<<"ai/1", "png">>, <<"ai/2", "png">>, <<"ai/3", "png">>, <<"ai/4", "png">>>>

\* ------------------------------------------------------------------ page
\* What BeautifulSoup finds in the fetched markup.
Bad == [json |-> "bad", keys |-> <<>>]            \* json.loads raises
NonObj == [json |-> "nonobj", keys |-> <<>>]      \* valid JSON, no .keys()
Obj(keys) == [json |-> "obj", keys |-> keys]

DynSamples ==
    { Bad, NonObj, Obj(<<>>),
      Obj(<<UA3, UA6>>),
      Obj(<<UA, UB>>),
      Obj(<<UB3, UC, UD>>),
      Obj(<<UEmpty, UE>>),
      Obj(<<UBB, UF>>),
      Obj(<<UA3, UB, UA6, UC, UD, UE, UF>>) }

SeqsUpTo(S, n) == UNION {[1..k -> S] : k \in 0..n}

TitleText == <<"SP", "Acme", "SP", "Widget", "NL">>
OgText == <<"Og", "SP", "Title", "SP">>
DocText == <<"NL", "Doc", "SP", "Title">>
DescText == <<"SP", "Great", "SP", "widget">>
OgDescText == <<"Og", "SP", "desc">>

NoTag == [present |-> FALSE, has |-> FALSE, val |-> <<>>]
Tag(v) == [present |-> TRUE, has |-> TRUE, val |-> v]
BareTag == [present |-> TRUE, has |-> FALSE, val |-> <<>>]  \* attribute/string missing

TitlePages ==
    [span : {NoTag, Tag(TitleText)},
     ogTitle : {NoTag, BareTag, Tag(OgText)},
     docTitle : {NoTag, BareTag, Tag(DocText)}]

PlainPage ==
    [span |-> NoTag, ogTitle |-> NoTag, docTitle |-> Tag(DocText),
     metaDesc |-> Tag(DescText), ogDesc |-> NoTag,
     landing |-> NoTag, ogImage |-> NoTag, dyn |-> <<>>]

\* ------------------------------------------------------------ extraction
DefaultTitle(v) == IF v = "main" THEN <<"Product">> ELSE <<"Product Title Not Found">>
DefaultDesc(v) ==
    IF v = "main" THEN <<"No description provided">> ELSE <<"No description found.">>

\* main.py: og:title content, else soup.title.string, else "Product".
\* A <title> without a single string child gives None.
TitleMain(p) ==
    IF p.ogTitle.present
    THEN [none |-> FALSE,
          val |-> IF p.ogTitle.has THEN p.ogTitle.val ELSE DefaultTitle("main")]
    ELSE IF p.docTitle.present
         THEN [none |-> ~p.docTitle.has, val |-> p.docTitle.val]
         ELSE [none |-> FALSE, val |-> DefaultTitle("main")]

\* extra-plus.py: get_text(strip=True) of span#productTitle or of the
\* og:title meta tag; a meta tag has no text, so its get_text is "".
TitlePlus(p) ==
    IF p.span.present THEN [none |-> FALSE, val |-> Strip(p.span.val)]
    ELSE IF p.ogTitle.present THEN [none |-> FALSE, val |-> <<>>]
    ELSE [none |-> FALSE, val |-> DefaultTitle("plus")]

\* desc_tag.get("content", default) if desc_tag else default
Description(v, p) ==
    LET tag == IF p.metaDesc.present THEN p.metaDesc ELSE p.ogDesc
    IN IF tag.present /\ tag.has THEN tag.val ELSE DefaultDesc(v)

\* main.py: img#landingImage or og:image; its src, else its content, else None
ImageMain(p) ==
    LET tag == IF p.landing.present THEN p.landing ELSE p.ogImage
    IN IF ~tag.present THEN NoneUrl
       ELSE IF tag.has THEN tag.val
       ELSE NoneUrl

RECURSIVE AddKeysNoDedup(_, _)
AddKeysNoDedup(keys, acc) ==
    IF keys = <<>> THEN acc
    ELSE AddKeysNoDedup(Tail(keys),
            IF Len(acc.urls) < MaxImages
            THEN [urls |-> Append(acc.urls, Head(keys)),
                  seen |-> acc.seen \cup {Normalize(Head(keys))}]
            ELSE acc)

RECURSIVE AddKeys(_, _)
\* for k in json_data.keys(): ... if base_url not in seen and len(img_urls) < 4
AddKeys(keys, acc) ==
    IF keys = <<>> THEN acc
    ELSE LET k == Head(keys)
             base == Normalize(k)
         IN AddKeys(Tail(keys),
                IF base \notin acc.seen /\ Len(acc.urls) < MaxImages
                THEN [urls |-> Append(acc.urls, k), seen |-> acc.seen \cup {base}]
                ELSE acc)

RECURSIVE ScanImgs(_, _)
\* for img in dynamic_imgs: try ... except Exception: continue
ScanImgs(elems, acc) ==
    IF elems = <<>> THEN acc
    ELSE ScanImgs(Tail(elems),
            IF Head(elems).json = "obj" THEN AddKeys(Head(elems).keys, acc) ELSE acc)

ImagesPlus(p) == ScanImgs(p.dyn, [urls |-> <<>>, seen |-> {}]).urls

\* extract_product_info after the fetch: title.strip() raises on None.
ExtractProductInfo(v, p) ==
    LET t == IF v = "main" THEN TitleMain(p) ELSE TitlePlus(p)
    IN [ran |-> TRUE,
        raised |-> t.none,
        title |-> IF t.none THEN <<>> ELSE Strip(t.val),
        desc |-> Strip(Description(v, p)),
        imgs |-> IF v = "main" THEN <<ImageMain(p)>> ELSE ImagesPlus(p)]

NotExtracted == [ran |-> FALSE, raised |-> FALSE, title |-> <<>>, desc |-> <<>>, imgs |-> <<>>]

\* ----------------------------------------------------------------- files
\* A file under TEMP_DIR: f"{kind}_{uuid4().hex}{ext}".  The uuid is the
\* count of files written so far plus one, so names never collide.
NullPath == [kind |-> "none", id |-> 0, ext |-> ""]     \* Python's None
NewPath(kind, ext, fs) == [kind |-> kind, id |-> Cardinality(fs) + 1, ext |-> ext]
File(path, src, state) == [path |-> path, src |-> src, state |-> state]
FilesOf(kind, fs) == {f \in fs : f.path.kind = kind}

\* os.path.splitext(url)[1][:5] or ".jpg"
ExtOf(url) ==
    IF Len(url) < 2 THEN ".jpg"
    ELSE CASE url[Len(url)] = "jpg" -> ".jpg"
           [] url[Len(url)] = "png" -> ".png"
           [] url[Len(url)] = "jpeg?v=2" -> ".jpeg"
           [] OTHER -> ".jpg"

\* What one download can do: the GET fails; the bytes are written but
\* Image.open/convert/save raises; or everything works.
Outcomes == {"ok", "fetch_fail", "decode_fail"}

\* main.py download_image: a fetch error propagates, a conversion error is
\* passed over and the path of the unconverted file is returned.
DownloadImageMain(url, o, fs) ==
    LET path == NewPath("img", ExtOf(url), fs)
    IN IF url = NoneUrl \/ url = <<>> \/ o = "fetch_fail"
       THEN [raised |-> TRUE, path |-> NullPath, files |-> fs]
       ELSE [raised |-> FALSE, path |-> path,
             files |-> fs \cup {File(path, url, IF o = "ok" THEN "ok" ELSE "raw")}]

DownloadImageRaising(url, o, fs) ==
    LET path == NewPath("img", ExtOf(url), fs)
    IN IF o = "ok"
       THEN [raised |-> FALSE, path |-> path, files |-> fs \cup {File(path, url, "ok")}]
       ELSE [raised |-> TRUE, path |-> NullPath, files |-> fs]

\* extra-plus.py download_image: every exception is caught and None returned;
\* the bytes written before a conversion error stay on disk.
DownloadImagePlus(url, o, fs) ==
    LET path == NewPath("img", ExtOf(url), fs)
    IN CASE o = "fetch_fail" -> [raised |-> FALSE, path |-> NullPath, files |-> fs]
         [] o = "decode_fail" ->
              [raised |-> FALSE, path |-> NullPath,
               files |-> fs \cup {File(path, url, "raw")}]
         [] OTHER ->
              [raised |-> FALSE, path |-> path,
               files |-> fs \cup {File(path, url, "ok")}]

RECURSIVE DownloadFrom(_, _, _, _)
\* [download_image(url) for url in urls if url]
DownloadFrom(urls, outs, i, acc) ==
    IF i > Len(urls) \/ acc.raised THEN acc
    ELSE IF urls[i] = <<>> THEN DownloadFrom(urls, outs, i + 1, acc)
    ELSE LET r == DownloadImagePlus(urls[i], outs[i], acc.files)
         IN DownloadFrom(urls, outs, i + 1,
                [raised |-> r.raised,
                 paths |-> IF r.raised THEN acc.paths ELSE Append(acc.paths, r.path),
                 files |-> r.files,
                 attempted |-> Append(acc.attempted, [url |-> urls[i], outcome |-> outs[i]])])

DownloadImages(urls, outs, fs) ==
    DownloadFrom(urls, outs, 1,
        [raised |-> FALSE, paths |-> <<>>, files |-> fs, attempted |-> <<>>])

\* ------------------------------------------------------- fallback images
GenerateAiImagesRaising(ok, count) ==
    IF ok THEN [raised |-> FALSE, urls |-> SubSeq(AiUrls, 1, count)]
    ELSE [raised |-> TRUE, urls |-> <<>>]

\* generate_ai_images: the service's URLs, or [] on any exception
GenerateAiImages(ok, count) ==
    IF ok THEN [raised |-> FALSE, urls |-> SubSeq(AiUrls, 1, count)]
    ELSE [raised |-> FALSE, urls |-> <<>>]

\* if not img_urls: img_urls = generate_ai_images(...)
NeedsFallback(imgs) == imgs = <<>>

\* ---------------------------------------------------------- create_video
\* gTTS refuses a text with nothing to speak; the service can fail too.
Speakable(text) == \E i \in 1..Len(text) : text[i] \notin Whitespace

\* ImageClip(img_path): needs a path and a decodable file behind it.
Usable(p, fs) == \E f \in fs : f.path = p /\ f.state = "ok"

PairSegmentsUnsliced(imgs, lines) ==
    [i \in 1..Len(imgs) |->
        [img |-> imgs[i], text |-> lines[IF i <= Len(lines) THEN i ELSE Len(lines)]]]

\* for i, img_path in enumerate(img_paths[:len(script_lines)]): text = script_lines[i]
PairSegments(imgs, lines) ==
    [i \in 1..Min(Len(imgs), Len(lines)) |-> [img |-> imgs[i], text |-> lines[i]]]

CvEnv == [tts : BOOLEAN, concat : BOOLEAN, encode : {"ok", "raise", "partial"}]

NoCall ==
    [called |-> FALSE, imgs |-> <<>>, lines |-> <<>>, clips |-> <<>>, track |-> <<>>,
     threw |-> "none", path |-> NullPath]

\* final.write_videofile(out_path, ...): the file exists once it returns; when
\* it raises nothing removes out_path, so what the encoder had written by
\* then (nothing, or a truncated file) is what stays on disk.
Encode(track, fs, e) ==
    LET out == NewPath("video", ".mp4", fs)
    IN CASE e.encode = "ok" ->
              [threw |-> "none", path |-> out, files |-> fs \cup {File(out, <<>>, "ok")}]
         [] e.encode = "partial" ->
              [threw |-> "encode", path |-> NullPath,
               files |-> fs \cup {File(out, <<>>, "partial")}]
         [] OTHER -> [threw |-> "encode", path |-> NullPath, files |-> fs]

\* create_video of either script.  segs is the list of (image, caption)
\* pairs the clips are built from, text the text handed to gTTS.
\* extra-plus.py swallows an exception of concatenate_videoclips (which the
\* empty list always raises) and then fails on the unbound local `final`.
CreateVideo(v, imgs, lines, text, fs, e) ==
    LET audio == NewPath("audio", ".mp3", fs)
        fs1 == fs \cup {File(audio, text, "ok")}
        segs == IF v = "main" THEN <<[img |-> imgs[1], text |-> text]>>
                ELSE PairSegments(imgs, lines)
        bad == {i \in 1..Len(segs) : ~Usable(segs[i].img, fs1)}
        firstBad == CHOOSE i \in bad : \A j \in bad : i <= j
        base == [called |-> TRUE, imgs |-> imgs, lines |-> lines, clips |-> <<>>,
                 track |-> <<>>, threw |-> "none", path |-> NullPath]
    IN IF ~(e.tts /\ Speakable(text))
       THEN [cv |-> [base EXCEPT !.threw = "tts"], files |-> fs]
       ELSE IF bad # {}
       THEN [cv |-> [base EXCEPT !.threw = "segment",
                                 !.clips = SubSeq(segs, 1, firstBad - 1)],
             files |-> fs1]
       ELSE IF v = "plus" /\ (segs = <<>> \/ ~e.concat)
       THEN [cv |-> [base EXCEPT !.threw = "concat", !.clips = segs], files |-> fs1]
       ELSE LET w == Encode(segs, fs1, e)
            IN [cv |-> [base EXCEPT !.clips = segs, !.track = segs,
                                    !.threw = w.threw, !.path = w.path],
                files |-> w.files]

\* ------------------------------------------------------------- handlers
\* The except clause around each stage: main.py catches only
\* openai.OpenAIError around generate_ad_script, everything else is
\* `except Exception`.  The image loop of extra-plus.py is outside any try.
Caught(v, stage, kind) ==
    CASE stage = "select" -> FALSE
      [] stage = "script" /\ v = "main" -> kind = "OpenAIError"
      [] OTHER -> TRUE

AfterErrorContinue(v, stage, kind) ==
    CASE stage = "script" -> "download"
      [] Caught(v, stage, kind) -> "halted"
      [] OTHER -> "crashed"

AfterErrorUncaught(v, stage, kind) ==
    IF stage = "video" THEN "crashed"
    ELSE IF Caught(v, stage, kind) THEN "halted" ELSE "crashed"

\* st.error(...) then st.stop() when the clause catches; otherwise the
\* exception leaves the script.
AfterError(v, stage, kind) == IF Caught(v, stage, kind) THEN "halted" ELSE "crashed"

\* ----------------------------------------------------------------- state
VARIABLES
    variant,        \* "main" (src/main.py) or "plus" (src/extra-plus.py)
    product_url,    \* st.text_input
    page,           \* what the fetched markup holds
    pc,             \* position of the run in the script
    title, desc, img_urls, selected_urls, script, script_lines, img_paths, video_path,
    files,          \* files under TEMP_DIR
    shown,          \* what the page shows, in order
    stages,         \* the stages begun, in order
    raised,         \* the stage that raised and the class of the exception
    extracted,      \* what extract_product_info computed from the markup
    ai,             \* "not_called", "failed" or "ok": generate_ai_images
    attempted,      \* the downloads tried, in order, each with what happened
    cv              \* the call of create_video: arguments, clips, outcome

vars ==
    <<variant, product_url, page, pc, title, desc, img_urls, selected_urls, script,
      script_lines, img_paths, video_path, files, shown, stages, raised, extracted,
      ai, attempted, cv>>

NoRaise == [stage |-> "none", kind |-> "none"]

\* Model responses of the chat completion (message.content)
Responses ==
    { <<"Buy">>,
      <<"Fast", "NL", "Buy">>,
      <<"SP", "Fast", "NL", "NL", "Cheap", "NL", "Buy", "NL">>,
      <<"NL", "SP">> }

RunPages ==
    {[PlainPage EXCEPT !.span = t.span, !.ogTitle = t.ogTitle, !.dyn = d, !.ogImage = g] :
        t \in {q \in TitlePages : q.docTitle = Tag(DocText) /\ q.ogTitle # BareTag
                                  /\ (q.span.present => q.ogTitle.present)},
        d \in SeqsUpTo(DynSamples, MaxRunElems),
        g \in {NoTag, Tag(UC)}}

ExtractPages ==
    {[PlainPage EXCEPT !.span = t.span, !.ogTitle = t.ogTitle, !.docTitle = t.docTitle,
                       !.dyn = d] :
        t \in TitlePages, d \in SeqsUpTo(DynSamples, MaxElems)}

\* The state before the button is pressed.
Fresh ==
    /\ title = <<>> /\ desc = <<>> /\ img_urls = <<>> /\ selected_urls = <<>>
    /\ script = <<>> /\ script_lines = <<>> /\ img_paths = <<>>
    /\ video_path = NullPath /\ files = {} /\ shown = <<>> /\ stages = <<>>
    /\ raised = NoRaise /\ extracted = NotExtracted /\ ai = "not_called"
    /\ attempted = <<>> /\ cv = NoCall

Init ==
    /\ variant \in {"main", "plus"}
    /\ product_url \in {"", "https://shop/p1"}
    /\ page \in RunPages
    /\ pc = "idle"
    /\ Fresh

\* if st.button(...) and product_url:  ...  st.caption(...)
Click ==
    /\ pc = "idle"
    /\ IF product_url = ""
       THEN pc' = "done" /\ shown' = Append(shown, "caption")
       ELSE pc' = "scrape" /\ shown' = shown
    /\ UNCHANGED <<variant, product_url, page, title, desc, img_urls, selected_urls,
                   script, script_lines, img_paths, video_path, files, stages, raised,
                   extracted, ai, attempted, cv>>

\* The first try block: extract_product_info, the fallback images of
\* extra-plus.py, and what is written to the page.  st.image(None) of
\* main.py may raise inside the try.
ScrapeStage ==
    /\ pc = "scrape"
    /\ stages' = Append(stages, "scrape")
    /\ \E fetchOk \in BOOLEAN, aiOk \in BOOLEAN, imageRaises \in BOOLEAN :
        LET ex == ExtractProductInfo(variant, page)
            fb == IF variant = "plus" /\ NeedsFallback(ex.imgs)
                  THEN GenerateAiImages(aiOk, FallbackCount)
                  ELSE [raised |-> FALSE, urls |-> ex.imgs]
            called == variant = "plus" /\ NeedsFallback(ex.imgs)
            fail(seen) ==
                /\ raised' = [stage |-> "scrape", kind |-> "Exception"]
                /\ pc' = AfterError(variant, "scrape", "Exception")
                /\ shown' = IF Caught(variant, "scrape", "Exception")
                            THEN shown \o seen \o <<"error">> ELSE shown \o seen
                /\ UNCHANGED <<title, desc, img_urls, selected_urls>>
        IN IF ~fetchOk
           THEN fail(<<>>) /\ UNCHANGED <<extracted, ai>>
           ELSE /\ extracted' = ex
                /\ IF ex.raised
                   THEN fail(<<>>) /\ UNCHANGED ai
                   ELSE /\ ai' = IF ~called THEN "not_called"
                                 ELSE IF aiOk THEN "ok" ELSE "failed"
                        /\ IF fb.raised
                           THEN fail(<<>>)
                           ELSE IF variant = "main" /\ ex.imgs[1] = NoneUrl /\ imageRaises
                           THEN fail(<<"title">>)
                           ELSE /\ title' = ex.title
                                /\ desc' = ex.desc
                                /\ img_urls' = fb.urls
                                /\ raised' = raised
                                /\ IF variant = "main"
                                   THEN /\ shown' = shown \o <<"title", "image">>
                                        /\ selected_urls' = fb.urls
                                        /\ pc' = "script"
                                   ELSE /\ shown' = shown \o <<"title", "desc">>
                                        /\ selected_urls' = selected_urls
                                        /\ pc' = "select"
    /\ UNCHANGED <<variant, product_url, page, script, script_lines, img_paths,
                   video_path, files, attempted, cv>>

\* extra-plus.py: for i, img_url in enumerate(img_urls): st.image(...);
\* selected_urls.append(...).  Outside any try; st.image of a string that is
\* no URL may raise.
SelectImages ==
    /\ pc = "select"
    /\ \E imageRaises \in BOOLEAN :
        LET empties == {i \in 1..Len(img_urls) : img_urls[i] = <<>>}
            first == CHOOSE i \in empties : \A j \in empties : i <= j
        IN IF empties # {} /\ imageRaises
           THEN /\ raised' = [stage |-> "select", kind |-> "Exception"]
                /\ pc' = AfterError(variant, "select", "Exception")
                /\ selected_urls' = SubSeq(img_urls, 1, first - 1)
                /\ shown' = shown \o [i \in 1..(first - 1) |-> "image"]
           ELSE /\ raised' = raised
                /\ pc' = "script"
                /\ selected_urls' = img_urls
                /\ shown' = shown \o [i \in 1..Len(img_urls) |-> "image"]
    /\ UNCHANGED <<variant, product_url, page, title, desc, img_urls, script,
                   script_lines, img_paths, video_path, files, stages, extracted, ai,
                   attempted, cv>>

\* The second try block: generate_ad_script, which returns
\* message.content.strip() or raises; extra-plus.py splits the script on "\n".
ScriptStage ==
    /\ pc = "script"
    /\ stages' = Append(stages, "script")
    /\ \/ \E kind \in {"OpenAIError", "Exception"} :
            /\ raised' = [stage |-> "script", kind |-> kind]
            /\ pc' = AfterError(variant, "script", kind)
            /\ shown' = IF Caught(variant, "script", kind)
                        THEN Append(shown, "error") ELSE shown
            /\ UNCHANGED <<script, script_lines>>
       \/ \E content \in Responses :
            /\ script' = Strip(content)
            /\ script_lines' = IF variant = "plus" THEN SplitLines(Strip(content))
                               ELSE script_lines
            /\ shown' = Append(shown, "script")
            /\ pc' = "download"
            /\ raised' = raised
    /\ UNCHANGED <<variant, product_url, page, title, desc, img_urls, selected_urls,
                   img_paths, video_path, files, extracted, ai, attempted, cv>>

\* Third try block, first statement: download_image(img_url) of main.py,
\* download_images(selected_urls) of extra-plus.py.
DownloadStep ==
    /\ pc = "download"
    /\ stages' = Append(stages, "download")
    /\ \E outs \in [1..Len(selected_urls) -> Outcomes] :
        IF variant = "main"
        THEN LET r == DownloadImageMain(selected_urls[1], outs[1], files)
             IN /\ files' = r.files
                /\ attempted' = IF selected_urls[1] \in {NoneUrl, <<>>} THEN attempted
                                ELSE Append(attempted,
                                        [url |-> selected_urls[1], outcome |-> outs[1]])
                /\ IF r.raised
                   THEN /\ raised' = [stage |-> "download", kind |-> "Exception"]
                        /\ pc' = AfterError(variant, "download", "Exception")
                        /\ shown' = IF Caught(variant, "download", "Exception")
                                    THEN Append(shown, "error") ELSE shown
                        /\ img_paths' = img_paths
                   ELSE /\ raised' = raised
                        /\ pc' = "video"
                        /\ shown' = shown
                        /\ img_paths' = <<r.path>>
        ELSE LET r == DownloadImages(selected_urls, outs, files)
             IN /\ files' = r.files
                /\ attempted' = attempted \o r.attempted
                /\ IF r.raised
                   THEN /\ raised' = [stage |-> "download", kind |-> "Exception"]
                        /\ pc' = AfterError(variant, "download", "Exception")
                        /\ shown' = IF Caught(variant, "download", "Exception")
                                    THEN Append(shown, "error") ELSE shown
                        /\ img_paths' = img_paths
                   ELSE /\ raised' = raised
                        /\ pc' = "video"
                        /\ shown' = shown
                        /\ img_paths' = r.paths
    /\ UNCHANGED <<variant, product_url, page, title, desc, img_urls, selected_urls,
                   script, script_lines, video_path, extracted, ai, cv>>

\* Third try block, second statement: create_video, then the success
\* message, the player, the download button and the caption.
VideoStep ==
    /\ pc = "video"
    /\ stages' = Append(stages, "video")
    /\ \E e \in CvEnv :
        LET text == IF variant = "main" THEN script ELSE JoinSp(script_lines)
            r == CreateVideo(variant, img_paths, script_lines, text, files, e)
        IN /\ cv' = r.cv
           /\ files' = r.files
           /\ IF r.cv.threw # "none"
              THEN /\ raised' = [stage |-> "video", kind |-> "Exception"]
                   /\ pc' = AfterError(variant, "video", "Exception")
                   /\ shown' = IF Caught(variant, "video", "Exception")
                               THEN Append(shown, "error") ELSE shown
                   /\ video_path' = video_path
              ELSE /\ raised' = raised
                   /\ pc' = "done"
                   /\ shown' = shown \o <<"success", "video", "download", "caption">>
                   /\ video_path' = r.cv.path
    /\ UNCHANGED <<variant, product_url, page, title, desc, img_urls, selected_urls,
                   script, script_lines, img_paths, extracted, ai, attempted>>

Next == Click \/ ScrapeStage \/ SelectImages \/ ScriptStage \/ DownloadStep \/ VideoStep

Spec == Init /\ [][Next]_vars

\* ------------------------------------------- extraction on its own inputs
\* extract_product_info over every combination of title tags and up to
\* MaxElems dynamic-image elements.
InitExtract ==
    /\ variant \in {"main", "plus"}
    /\ product_url = "https://shop/p1"
    /\ page \in ExtractPages
    /\ pc = "idle"
    /\ Fresh

NextExtract == Click \/ ScrapeStage

SpecExtract == InitExtract /\ [][NextExtract]_vars

\* ------------------------------------------- download_images on its own
NonEmptyUrl(u) == u # <<>>

InitDownload ==
    /\ variant = "plus"
    /\ product_url = "https://shop/p1"
    /\ page = PlainPage
    /\ pc = "download"
    /\ selected_urls \in SeqsUpTo({UA3, UB, UEmpty, UD}, MaxUrls)
    /\ img_urls = selected_urls
    /\ title = Strip(DocText) /\ desc = Strip(DescText)
    /\ script = <<"Fast", "NL", "Buy">> /\ script_lines = SplitLines(script)
    /\ img_paths = <<>> /\ video_path = NullPath /\ files = {}
    /\ shown = <<"title", "desc">> \o [i \in 1..Len(selected_urls) |-> "image"]
               \o <<"script">>
    /\ stages = <<"scrape", "script">>
    /\ raised = NoRaise
    /\ extracted = [ExtractProductInfo("plus", PlainPage) EXCEPT !.imgs = selected_urls]
    /\ ai = "not_called" /\ attempted = <<>> /\ cv = NoCall

NextDownload == DownloadStep

SpecDownload == InitDownload /\ [][NextDownload]_vars

\* ---------------------------------------------- create_video on its own
RECURSIVE JoinNl(_)
JoinNl(lines) ==
    IF lines = <<>> THEN <<>>
    ELSE IF Len(lines) = 1 THEN lines[1]
    ELSE lines[1] \o <<"NL">> \o JoinNl(Tail(lines))

P1 == [kind |-> "img", id |-> 1, ext |-> ".jpg"]
P2 == [kind |-> "img", id |-> 2, ext |-> ".png"]
P3 == [kind |-> "img", id |-> 3, ext |-> ".jpg"]

\* img_paths as download_images leaves them (None or the path of a
\* converted file, each path once) and script_lines as split() leaves them.
InitVideo ==
    /\ variant = "plus"
    /\ product_url = "https://shop/p1"
    /\ page = PlainPage
    /\ pc = "video"
    /\ img_paths \in SeqsUpTo({NullPath, P1, P2, P3}, MaxImgs)
    /\ \A i, j \in 1..Len(img_paths) :
          (i # j /\ img_paths[i] = img_paths[j]) => img_paths[i] = NullPath
    /\ files = {File(P1, UA, "ok"), File(P2, UC, "ok"), File(P3, UB, "ok")}
    /\ script_lines \in UNION {[1..k -> {<<"Buy">>, <<"Now">>, <<>>}] : k \in 1..MaxLines}
    /\ script_lines = SplitLines(Strip(JoinNl(script_lines)))
    /\ script = JoinNl(script_lines)
    /\ img_urls = <<UA, UC, UB>> /\ selected_urls = img_urls
    /\ title = Strip(DocText) /\ desc = Strip(DescText)
    /\ video_path = NullPath
    /\ shown = <<"title", "desc", "image", "image", "image", "script">>
    /\ stages = <<"scrape", "script", "download">>
    /\ raised = NoRaise
    /\ extracted = [ExtractProductInfo("plus", PlainPage) EXCEPT !.imgs = img_urls]
    /\ ai = "not_called"
    /\ attempted = [i \in 1..3 |-> [url |-> img_urls[i], outcome |-> "ok"]]
    /\ cv = NoCall

NextVideo == VideoStep

SpecVideo == InitVideo /\ [][NextVideo]_vars

\* ---------------------------------------------------------------- claims
InSeq(x, s) == \E i \in 1..Len(s) : s[i] = x
StageOrder == <<"scrape", "script", "download", "video">>
LastShown == IF shown = <<>> THEN "nothing" ELSE shown[Len(shown)]

\* C1: when generate_ad_script raises, of whatever class, the run ends there:
\* no download is tried, create_video is not called, and no audio or video
\* file is written.
ScriptErrorHaltsRun ==
    raised.stage = "script" =>
        /\ pc \in {"halted", "crashed"}
        /\ ~InSeq("download", stages) /\ ~InSeq("video", stages)
        /\ attempted = <<>> /\ img_paths = <<>> /\ ~cv.called
        /\ FilesOf("audio", files) = {} /\ FilesOf("video", files) = {}
        /\ video_path = NullPath

ScriptErrorUncaughtSeen ==
    raised = [stage |-> "script", kind |-> "Exception"] /\ pc = "crashed"

\* C2: create_video of extra-plus.py, once its loop has run through, has
\* built exactly min(N, L) clips, clip i from image i and line i, and the
\* encoded track is those clips in that order.
SegmentsPairInOrder ==
    (variant = "plus" /\ cv.called /\ cv.threw \in {"none", "concat", "encode"}) =>
        /\ Len(cv.clips) = Min(Len(cv.imgs), Len(cv.lines))
        /\ \A i \in 1..Len(cv.clips) :
              cv.clips[i] = [img |-> cv.imgs[i], text |-> cv.lines[i]]
        /\ (cv.threw = "none" => cv.track = cv.clips)

MoreImagesThanLinesSeen ==
    /\ variant = "plus" /\ cv.called /\ cv.threw = "none"
    /\ Len(cv.imgs) = 3 /\ Len(cv.lines) = 2 /\ Len(cv.track) = 2

\* C3 (as claimed): a create_video that returns has written exactly one video
\* file and returns its path; one whose concatenation or encoding raised
\* fails to its caller, leaves no video file and returns no path.
OneVideoFileOrNone ==
    cv.called =>
        /\ cv.threw = "none" =>
              /\ \E f \in files : FilesOf("video", files) = {f} /\ f.path = video_path
              /\ pc = "done"
        /\ cv.threw \in {"concat", "encode"} =>
              /\ FilesOf("video", files) = {}
              /\ video_path = NullPath /\ cv.path = NullPath
              /\ raised.stage = "video" /\ pc = "halted"

\* C4: with no scraped image and no fallback image nothing is downloaded,
\* and create_video called with no image ends the run by the handler's error
\* message, never by an uncaught exception and never with a video.
ZeroImagesControlledFailure ==
    /\ (variant = "plus" /\ extracted.ran /\ ~extracted.raised
        /\ extracted.imgs = <<>> /\ ai = "failed") =>
            /\ img_urls = <<>> /\ selected_urls = <<>>
            /\ attempted = <<>> /\ FilesOf("img", files) = {}
            /\ pc \notin {"crashed", "done"}
            /\ cv.called =>
                  /\ cv.imgs = <<>> /\ raised.stage = "video"
                  /\ pc = "halted" /\ LastShown = "error"
                  /\ video_path = NullPath /\ FilesOf("video", files) = {}
    /\ (variant = "main" /\ extracted.ran /\ ~extracted.raised
        /\ extracted.imgs = <<NoneUrl>>) =>
            /\ FilesOf("img", files) = {} /\ ~cv.called /\ pc # "done"

ZeroImagesReachVideoSeen ==
    /\ variant = "plus" /\ ai = "failed" /\ cv.called /\ cv.imgs = <<>>
    /\ cv.threw = "concat" /\ pc = "halted"

AllKeys(p) ==
    UNION {{p.dyn[i].keys[j] : j \in 1..Len(p.dyn[i].keys)} :
              i \in {n \in 1..Len(p.dyn) : p.dyn[n].json = "obj"}}
Bases(p) == {Normalize(k) : k \in AllKeys(p)}

\* C5: the image list of extra-plus.py holds at most one URL per normalized
\* base, never more than 4, each a key of some element; elements whose
\* attribute does not parse are passed over, the others still count, and
\* nothing is raised.
DedupAndCap ==
    (variant = "plus" /\ extracted.ran) =>
        /\ ~extracted.raised
        /\ Len(extracted.imgs) <= MaxImages
        /\ \A i, j \in 1..Len(extracted.imgs) :
              i # j => Normalize(extracted.imgs[i]) # Normalize(extracted.imgs[j])
        /\ \A i \in 1..Len(extracted.imgs) : extracted.imgs[i] \in AllKeys(page)
        /\ Len(extracted.imgs) = Min(MaxImages, Cardinality(Bases(page)))

DedupAndCapSeen ==
    /\ variant = "plus" /\ extracted.ran
    /\ Len(extracted.imgs) = MaxImages
    /\ Len(page.dyn) = 2 /\ page.dyn[1].json = "bad"
    /\ Cardinality(Bases(page)) > MaxImages
    /\ Cardinality(AllKeys(page)) > Cardinality(Bases(page))

\* C6 (as claimed): without a product-title element the title is the
\* og:title content, else the document title, else the default, and
\* extraction does not raise.
TitleFallsThrough ==
    (extracted.ran /\ ~page.span.present) =>
        /\ ~extracted.raised
        /\ extracted.title =
              Strip(IF page.ogTitle.present /\ page.ogTitle.has THEN page.ogTitle.val
                    ELSE IF page.docTitle.present /\ page.docTitle.has
                         THEN page.docTitle.val
                    ELSE DefaultTitle(variant))

\* C7 (as claimed): create_video is never handed a None among its image paths.
NoNullPathToVideo ==
    cv.called => \A i \in 1..Len(cv.imgs) : cv.imgs[i] # NullPath

\* C8: download_images tries every non-empty URL in order; a failed one
\* gives None at its place, a good one the path of a file holding that
\* URL's image, and the batch never raises.
BatchDownloadIsolated ==
    (variant = "plus" /\ InSeq("download", stages)) =>
        LET want == SelectSeq(selected_urls, NonEmptyUrl)
        IN /\ raised.stage # "download"
           /\ Len(attempted) = Len(want) /\ Len(img_paths) = Len(want)
           /\ \A i \in 1..Len(want) :
                 /\ attempted[i].url = want[i]
                 /\ attempted[i].outcome = "ok" =>
                       \E f \in files : f.path = img_paths[i] /\ f.src = want[i]
                                        /\ f.state = "ok"
                 /\ attempted[i].outcome # "ok" => img_paths[i] = NullPath

FailureInsideBatchSeen ==
    /\ variant = "plus" /\ Len(attempted) = 3
    /\ attempted[1].outcome = "ok" /\ attempted[2].outcome = "fetch_fail"
    /\ attempted[3].outcome = "ok"
    /\ img_paths[2] = NullPath /\ img_paths[3] # NullPath

\* C9: generate_ai_images is called only when extraction found no image;
\* when the service fails the list stays empty and the scrape stage goes on.
FallbackOnlyWhenEmptyAndSwallowed ==
    /\ ai # "not_called" =>
          variant = "plus" /\ extracted.ran /\ extracted.imgs = <<>>
    /\ (variant = "plus" /\ extracted.ran /\ ~extracted.raised /\ extracted.imgs # <<>>) =>
          ai = "not_called" /\ img_urls = extracted.imgs
    /\ ai = "ok" => img_urls = SubSeq(AiUrls, 1, FallbackCount)
    /\ ai = "failed" =>
          /\ img_urls = <<>>
          /\ raised.stage # "scrape"
          /\ pc \notin {"idle", "scrape"}
          /\ InSeq("title", shown)

FallbackFailureSwallowedSeen ==
    variant = "plus" /\ ai = "failed" /\ pc = "script" /\ raised = NoRaise

\* C10 (as claimed): the stages run in order; a stage that raises has its
\* error message shown by the handler and ends the run; the success
\* message, player and download button follow four successful stages only.
StagesInOrderErrorsSurfaced ==
    /\ stages = SubSeq(StageOrder, 1, Len(stages))
    /\ InSeq(raised.stage, StageOrder) =>
          /\ pc = "halted" /\ LastShown = "error"
          /\ stages[Len(stages)] = raised.stage
    /\ (InSeq("success", shown) \/ InSeq("video", shown) \/ InSeq("download", shown)) =>
          stages = StageOrder /\ raised = NoRaise /\ pc = "done"

====
